---- MODULE Spec2Model ----
(***************************************************************************)
(* A model of two Ansible modules of ibm_zos_core:                         *)
(*   plugins/modules/zos_operator_outstanding_action.py                    *)
(*   plugins/modules/zos_tso_command.py                                    *)
(* Python strings are TLA+ strings (TLC treats them as sequences of        *)
(* characters: Len, SubSeq and \o work on them).  Python lists are         *)
(* sequences, dicts are functions on their keys.                           *)
(***************************************************************************)
EXTENDS Integers, Sequences, FiniteSets, TLC

VARIABLES
  call,         \* a pure function under test: [fn |-> name, args |-> <<...>>]
  ret,          \* its result: Pending, Ret(value) or Raise(exception, message)
  params,       \* module.params of the outstanding-action query
  check_mode,   \* module.check_mode
  console,      \* what OperatorCmd.execute answers: command -> [rc, message]
  pc,           \* position of run_module of the outstanding-action query
  new_params,   \* run_module: parser.parse_args(module.params)
  message_a,    \* create_merge_list: message_a
  message_b,    \* create_merge_list: message_b
  list_a,       \* create_merge_list: list_a
  list_b,       \* create_merge_list: list_b
  merged_list,  \* find_required_request: merged_list
  requests,     \* find_required_request / run_module: requests
  result,       \* what run_module hands to exit_json / fail_json / returns
  log,          \* history: the externally visible steps of the run, in order
  tso           \* zos_tso_command: inputs, position and outcome of run_module

vars == <<call, ret, params, check_mode, console, pc, new_params, message_a,
          message_b, list_a, list_b, merged_list, requests, result, log, tso>>

queryVars == <<params, check_mode, console, pc, new_params, message_a,
               message_b, list_a, list_b, merged_list, requests, result, log>>

-----------------------------------------------------------------------------
(* Bounds of the model.                                                    *)

\* the longest console text, in lines, that SpecParseA feeds to parse_result_a
MaxLines == 4

-----------------------------------------------------------------------------
(* Python values.                                                          *)

\* Python's None, for a module parameter that was not given
None == "<None>"

\* the result of a call that has not run yet
Pending == [state |-> "pending"]

\* a call that returned v
Ret(v) == [state |-> "returned", val |-> v]

\* a call that raised exception class e with message m
Raise(e, m) == [state |-> "raised", exc |-> e, msg |-> m]

\* {} and d[k] = v on dicts
EmptyDict == [k \in {} |-> ""]

DictSet(d, k, v) == [x \in (DOMAIN d) \cup {k} |-> IF x = k THEN v ELSE d[x]]

-----------------------------------------------------------------------------
(* Characters and the str methods the modules use.                         *)

DigitChars == "0123456789"

UpperChars == "ABCDEFGHIJKLMNOPQRSTUVWXYZ"

LowerChars == "abcdefghijklmnopqrstuvwxyz"

Ch(s, i) == SubSeq(s, i, i)

CharsOf(s) == {Ch(s, i) : i \in 1..Len(s)}

\* [0-9]
Digits == CharsOf(DigitChars)

\* [A-Z]
Uppers == CharsOf(UpperChars)

\* [a-z]
Lowers == CharsOf(LowerChars)

\* [a-zA-Z0-9]
Alnums == Digits \cup Uppers \cup Lowers

\* [A-Z0-9]
UpperAlnums == Digits \cup Uppers

\* \s of re, and the characters str.strip() removes
SpaceChars == {" ", "\t", "\n", "\r", "\f"}

IsDigit(c) == c \in Digits

IsUpper(c) == c \in Uppers

IsLower(c) == c \in Lowers

IsAlnum(c) == c \in Alnums

IsSpace(c) == c \in SpaceChars

\* position i of s exists and holds a character of the class
At(s, i, class) == i >= 1 /\ i <= Len(s) /\ Ch(s, i) \in class

\* str.strip(chars): drop is the set of characters removed at both ends
RECURSIVE lstrip(_, _)
lstrip(s, drop) ==
  IF Len(s) > 0 /\ Ch(s, 1) \in drop THEN lstrip(SubSeq(s, 2, Len(s)), drop) ELSE s

RECURSIVE rstrip(_, _)
rstrip(s, drop) ==
  IF Len(s) > 0 /\ Ch(s, Len(s)) \in drop
    THEN rstrip(SubSeq(s, 1, Len(s) - 1), drop)
    ELSE s

\* str.strip()
strip(s) == rstrip(lstrip(s, SpaceChars), SpaceChars)

\* str.strip('*')
strip_star(s) == rstrip(lstrip(s, {"*"}), {"*"})

\* str.upper(), one character
UpperOf(c) ==
  IF IsLower(c)
    THEN Ch(UpperChars, CHOOSE i \in 1..Len(LowerChars) : Ch(LowerChars, i) = c)
    ELSE c

\* str.upper()
RECURSIVE upper(_)
upper(s) ==
  IF Len(s) = 0 THEN "" ELSE UpperOf(Ch(s, 1)) \o upper(SubSeq(s, 2, Len(s)))

\* str.lower(), one character
LowerOf(c) ==
  IF IsUpper(c)
    THEN Ch(LowerChars, CHOOSE i \in 1..Len(UpperChars) : Ch(UpperChars, i) = c)
    ELSE c

\* str.lower()
RECURSIVE lower(_)
lower(s) ==
  IF Len(s) = 0 THEN "" ELSE LowerOf(Ch(s, 1)) \o lower(SubSeq(s, 2, Len(s)))

\* the first position >= i of s that holds sep, or 0
RECURSIVE FindChar(_, _, _)
FindChar(s, sep, i) ==
  IF i > Len(s) THEN 0
  ELSE IF Ch(s, i) = sep THEN i
  ELSE FindChar(s, sep, i + 1)

\* str.split(sep, maxsplit) for a one-character sep; maxsplit = -1: no limit
RECURSIVE str_split(_, _, _)
str_split(s, sep, maxsplit) ==
  LET p == FindChar(s, sep, 1) IN
    IF maxsplit = 0 \/ p = 0 THEN <<s>>
    ELSE <<SubSeq(s, 1, p - 1)>>
           \o str_split(SubSeq(s, p + 1, Len(s)), sep,
                        IF maxsplit < 0 THEN maxsplit ELSE maxsplit - 1)

\* the first position >= i of s that holds whitespace, or 0
RECURSIVE FindSpace(_, _)
FindSpace(s, i) ==
  IF i > Len(s) THEN 0
  ELSE IF IsSpace(Ch(s, i)) THEN i
  ELSE FindSpace(s, i + 1)

\* the first position >= i of s that holds no whitespace, or Len(s) + 1
RECURSIVE SkipSpace(_, _)
SkipSpace(s, i) ==
  IF i > Len(s) THEN Len(s) + 1
  ELSE IF IsSpace(Ch(s, i)) THEN SkipSpace(s, i + 1)
  ELSE i

\* re.compile(r'\s+').split(s, maxsplit); maxsplit = 0: no limit (re's convention)
RECURSIVE regex_split(_, _, _)
regex_split(s, maxsplit, done) ==
  LET p == FindSpace(s, 1) IN
    IF (maxsplit > 0 /\ done >= maxsplit) \/ p = 0 THEN <<s>>
    ELSE <<SubSeq(s, 1, p - 1)>>
           \o regex_split(SubSeq(s, SkipSpace(s, p), Len(s)), maxsplit, done + 1)

\* ' '.join / '\n'.join
RECURSIVE Join(_, _)
Join(seq, sep) ==
  IF Len(seq) = 0 THEN ""
  ELSE IF Len(seq) = 1 THEN seq[1]
  ELSE seq[1] \o sep \o Join(Tail(seq), sep)

\* s[i..j] holds only characters of the class
AllIn(s, i, j, class) == \A k \in i..j : At(s, k, class)

-----------------------------------------------------------------------------
(* Form A parser.                                                          *)

\* [0-9]{2,}\s[A-Z]{1}\s matched with its last two digits at i, i+1: the
\* common prefix of the three header patterns (a leading \s* matches nothing
\* that matters to whether search() finds a match)
HeaderPrefixAt(line, i) ==
  /\ At(line, i, Digits)
  /\ At(line, i + 1, Digits)
  /\ At(line, i + 2, SpaceChars)
  /\ At(line, i + 3, Uppers)
  /\ At(line, i + 4, SpaceChars)

\* pattern_without_job_id.search(line):
\*   \s*[0-9]{2,}\s[A-Z]{1}\s[a-zA-Z0-9]{1,8}
pattern_without_job_id(line) ==
  \E i \in 1..Len(line) : HeaderPrefixAt(line, i) /\ At(line, i + 5, Alnums)

\* [A-Z0-9]{1,8}\s starting at p: the token is s[p..p+k-1], whitespace follows
TokenThenSpace(line, p, k) ==
  /\ AllIn(line, p, p + k - 1, UpperAlnums)
  /\ At(line, p + k, SpaceChars)

\* pattern_with_job_id.search(line):
\*   \s*[0-9]{2,}\s[A-Z]{1}\s[A-Z0-9]{1,8}\s+[A-Z0-9]{1,8}\s
pattern_with_job_id(line) ==
  \E i \in 1..Len(line) :
    /\ HeaderPrefixAt(line, i)
    /\ \E k \in 1..8 :
         /\ TokenThenSpace(line, i + 5, k)
         /\ \E j \in 1..8 : TokenThenSpace(line, SkipSpace(line, i + 5 + k), j)

\* parse_result_a assigns True to "endflag" on the last line and tests
\* "end_flag", which stays False from its initialisation to the return
end_flag == FALSE

\* the state of the loop of parse_result_a before its first line
ParseAStart == [list |-> <<>>, dict_temp |-> EmptyDict, request_temp |-> "",
                exc |-> "none"]

\* "if request_temp:" at the top of the header branch: close the open record
CloseRecord(st) ==
  IF st.request_temp # ""
    THEN [st EXCEPT
            !.list = Append(@, DictSet(st.dict_temp, "message_text",
                                       st.request_temp)),
            !.request_temp = "",
            !.dict_temp = EmptyDict]
    ELSE st

\* one iteration of the loop of parse_result_a, on one raw line
parse_result_a_line(st, raw) ==
  LET line == strip(raw)
      m == pattern_without_job_id(line)
      n == pattern_with_job_id(line)
      closed == CloseRecord(st)
  IN
    IF st.exc # "none" THEN st
    ELSE IF n \/ m \/ end_flag THEN
      IF n THEN
        LET elements == regex_split(line, 4, 0) IN
          [closed EXCEPT
             !.dict_temp = [number |-> elements[1], type |-> elements[2],
                            system |-> elements[3], job_id |-> elements[4]],
             !.request_temp = strip(elements[5])]
      ELSE IF m THEN
        LET elements == str_split(line, " ", 3) IN
          IF Len(elements) < 4
            THEN [closed EXCEPT !.exc = "IndexError"]
            ELSE [closed EXCEPT
                    !.dict_temp = [number |-> elements[1], type |-> elements[2],
                                   system |-> elements[3]],
                    !.request_temp = strip(elements[4])]
      ELSE closed
    ELSE
      IF st.request_temp # ""
        THEN [st EXCEPT !.request_temp = @ \o " " \o line]
        ELSE st

\* the loop of parse_result_a over the lines, first to last
RECURSIVE ParseALoop(_, _)
ParseALoop(st, lines) ==
  IF Len(lines) = 0 THEN st
  ELSE ParseALoop(parse_result_a_line(st, Head(lines)), Tail(lines))

\* parse_result_a(result): the list it returns, or the IndexError it raises
parse_result_a(text) ==
  LET st == ParseALoop(ParseAStart, str_split(text, "\n", -1)) IN
    IF st.exc # "none" THEN Raise(st.exc, "list index out of range")
    ELSE Ret(st.list)

-----------------------------------------------------------------------------
(* Console texts of the "d r,a,s" command.                                 *)

\* a request with a job id, and the first line of its message
LineJobId == "12 R MV27 STC01 *12 DFS"

\* a request without a job id
LineNoJobId == "13 R MV28 *13 HWS"

\* a continuation line, indented as the console prints it
LineCont == "   IMS READY "

\* the title line of the display
LineTitle == "IEE112I 13.39 PENDING"

\* a request whose line ends after the system name
LineBare == "14 R MV29"

\* a request without a job id whose message starts with an upper-case word
LineWord == "15 R MV2A IMS UP NOW"

LinesA == {LineJobId, LineNoJobId, LineCont, LineTitle, LineBare, LineWord}

\* all sequences over S of length 1..n
SeqsUpTo(S, n) == UNION {[1..k -> S] : k \in 1..n}

\* the console texts fed to parse_result_a
TextsA == {Join(ls, "\n") : ls \in SeqsUpTo(LinesA, MaxLines)}

-----------------------------------------------------------------------------
(* SpecParseA: parse_result_a applied to a console text.                   *)

QueryIdle ==
  /\ params = [request_number_list |-> <<"all">>, system |-> None,
               message_id |-> None, jobname |-> None]
  /\ check_mode = FALSE
  /\ console = <<>>
  /\ pc = "idle"
  /\ new_params = None
  /\ message_a = None
  /\ message_b = None
  /\ list_a = <<>>
  /\ list_b = <<>>
  /\ merged_list = <<>>
  /\ requests = <<>>
  /\ result = [outcome |-> "none"]
  /\ log = <<>>

TsoIdle == tso = [pc |-> "idle"]

InitParseA ==
  /\ call \in {[fn |-> "parse_result_a", args |-> <<t>>] : t \in TextsA}
  /\ ret = Pending
  /\ QueryIdle
  /\ TsoIdle

CallParseA ==
  /\ call.fn = "parse_result_a"
  /\ ret = Pending
  /\ ret' = parse_result_a(call.args[1])
  /\ UNCHANGED <<call, queryVars, tso>>

SpecParseA == InitParseA /\ [][CallParseA]_vars

\* the lines of a console text, as parse_result_a sees them after strip()
LinesOf(text) ==
  LET raw == str_split(text, "\n", -1) IN [i \in 1..Len(raw) |-> strip(raw[i])]

IsHeaderA(line) == pattern_with_job_id(line) \/ pattern_without_job_id(line)

\* what follows number, type, system (and job id) on a header line
RemainderA(line) ==
  IF pattern_with_job_id(line)
    THEN strip(regex_split(line, 4, 0)[5])
    ELSE LET e == str_split(line, " ", 3) IN IF Len(e) < 4 THEN "" ELSE strip(e[4])

\* the indices of the header lines of a text
HeadersA(lines) == {i \in 1..Len(lines) : IsHeaderA(lines[i])}

\* the last line of the record that the header at line h opens
LastLineOf(lines, h) ==
  IF \E i \in HeadersA(lines) : i > h
    THEN (CHOOSE i \in HeadersA(lines) :
            i > h /\ \A j \in HeadersA(lines) : j > h => i <= j) - 1
    ELSE Len(lines)

\* the message text of the record that the header at line h opens: the
\* remainder of the header and the continuation lines, joined by single spaces
MessageTextA(lines, h) ==
  Join(<<RemainderA(lines[h])>> \o SubSeq(lines, h + 1, LastLineOf(lines, h)), " ")

\* a text of the scenario of C1: two header lines, one with and one without a
\* job id, a message on each and at least one continuation line after each
TwoHeaderScenario(lines) ==
  /\ Cardinality(HeadersA(lines)) = 2
  /\ \E g \in HeadersA(lines) : pattern_with_job_id(lines[g])
  /\ \E g \in HeadersA(lines) : ~pattern_with_job_id(lines[g])
  /\ \A h \in HeadersA(lines) :
       /\ RemainderA(lines[h]) # ""
       /\ LastLineOf(lines, h) > h

\* C1: parse_result_a returns one record per header line: on a text with two
\* header lines (one with a job id, one without) and continuation lines after
\* each, it returns exactly two records, the i-th carrying the message text
\* of the i-th header, so the record of the last header is in the list.
C1_OneRecordPerHeader ==
  (call.fn = "parse_result_a" /\ ret # Pending
     /\ TwoHeaderScenario(LinesOf(call.args[1])))
  => LET lines == LinesOf(call.args[1])
         h1 == CHOOSE h \in HeadersA(lines) : \A g \in HeadersA(lines) : h <= g
         h2 == CHOOSE h \in HeadersA(lines) : \A g \in HeadersA(lines) : g <= h
     IN /\ ret.state = "returned"
        /\ Len(ret.val) = 2
        /\ ret.val[1]["message_text"] = MessageTextA(lines, h1)
        /\ ret.val[2]["message_text"] = MessageTextA(lines, h2)

-----------------------------------------------------------------------------
(* Record merger.                                                          *)

\* dict.get(key)
DictGet(d, k) == IF k \in DOMAIN d THEN d[k] ELSE None

\* dict_z = dict_a.copy(); dict_z.update(dict_b)
DictUpdate(dict_a, dict_b) ==
  [k \in (DOMAIN dict_a) \cup (DOMAIN dict_b) |->
     IF k \in DOMAIN dict_b THEN dict_b[k] ELSE dict_a[k]]

\* the inner loop of merge_list: dict_a against every dict_b, in order
RECURSIVE MergeOne(_, _)
MergeOne(dict_a, list_b_rest) ==
  IF Len(list_b_rest) = 0 THEN <<>>
  ELSE LET dict_b == Head(list_b_rest) IN
         (IF DictGet(dict_a, "number") = DictGet(dict_b, "number")
            THEN <<DictUpdate(dict_a, dict_b)>>
            ELSE <<>>)
         \o MergeOne(dict_a, Tail(list_b_rest))

\* a merge that lets the Form A fields win on a shared key
RECURSIVE merge_list_a_wins(_, _)
merge_list_a_wins(la, lb) ==
  IF Len(la) = 0 THEN <<>>
  ELSE LET one == MergeOne(Head(la), lb) IN
         [i \in 1..Len(one) |-> DictUpdate(one[i], Head(la))]
         \o merge_list_a_wins(Tail(la), lb)

\* the first match only: an inner loop that breaks after it appends
RECURSIVE MergeFirst(_, _)
MergeFirst(dict_a, list_b_rest) ==
  IF Len(list_b_rest) = 0 THEN <<>>
  ELSE IF DictGet(dict_a, "number") = DictGet(Head(list_b_rest), "number")
    THEN <<DictUpdate(dict_a, Head(list_b_rest))>>
    ELSE MergeFirst(dict_a, Tail(list_b_rest))

\* a merge that joins each Form A record with its first Form B match only
RECURSIVE merge_list_break(_, _)
merge_list_break(la, lb) ==
  IF Len(la) = 0 THEN <<>>
  ELSE MergeFirst(Head(la), lb) \o merge_list_break(Tail(la), lb)

\* merge_list(list_a, list_b)
RECURSIVE merge_list(_, _)
merge_list(la, lb) ==
  IF Len(la) = 0 THEN <<>>
  ELSE MergeOne(Head(la), lb) \o merge_list(Tail(la), lb)

-----------------------------------------------------------------------------
(* SpecMerge: merge_list applied to two lists of partial records.          *)

\* the longest list of partial records fed to merge_list
MaxRecs == 2

\* Form A records; two of them share a number
RecordsA ==
  { [number |-> "01", type |-> "R", system |-> "MV27", job_id |-> "STC01",
     message_text |-> "*01 DFS"],
    [number |-> "02", type |-> "R", system |-> "MV29", message_text |-> "*02 HWS"],
    [number |-> "01", type |-> "R", system |-> "MV29", message_text |-> "*01 DSI"] }

\* Form B records; two share a number, one carries a key of Form A as well
RecordsB ==
  { [number |-> "01", jobname |-> "IM5H", message_id |-> "DFS"],
    [number |-> "02", jobname |-> "MQ1", message_id |-> "HWS"],
    [number |-> "03", jobname |-> "IM5G", message_id |-> "DSI"],
    [number |-> "01", jobname |-> "MQ2", message_id |-> "DSI", system |-> "SYSB"] }

\* all sequences over S of length 0..n
ListsUpTo(S, n) == {<<>>} \cup SeqsUpTo(S, n)

InitMerge ==
  /\ call \in {[fn |-> "merge_list", args |-> <<la, lb>>] :
                 la \in ListsUpTo(RecordsA, MaxRecs),
                 lb \in ListsUpTo(RecordsB, MaxRecs)}
  /\ ret = Pending
  /\ QueryIdle
  /\ TsoIdle

CallMerge ==
  /\ call.fn = "merge_list"
  /\ ret = Pending
  /\ ret' = Ret(merge_list(call.args[1], call.args[2]))
  /\ UNCHANGED <<call, queryVars, tso>>

SpecMerge == InitMerge /\ [][CallMerge]_vars

\* the pairs of positions (i, j) whose records share their number
JoinPairs(la, lb) ==
  {p \in (1..Len(la)) \X (1..Len(lb)) : la[p[1]]["number"] = lb[p[2]]["number"]}

\* r carries every field of a overlaid by every field of b
IsOverlay(r, a, b) ==
  /\ DOMAIN r = (DOMAIN a) \cup (DOMAIN b)
  /\ \A k \in DOMAIN b : r[k] = b[k]
  /\ \A k \in (DOMAIN a) \ (DOMAIN b) : r[k] = a[k]

\* C2: merge_list is an inner join on number: the result holds one record
\* for each pair (a, b) with a.number = b.number and nothing else, each
\* record is a overlaid by b (b wins on a shared key), and a number found in
\* only one of the lists is the number of no result record.
C2_InnerJoin ==
  (call.fn = "merge_list" /\ ret # Pending)
  => LET la == call.args[1]
         lb == call.args[2]
         out == ret.val
         numsA == {la[i]["number"] : i \in 1..Len(la)}
         numsB == {lb[j]["number"] : j \in 1..Len(lb)}
     IN /\ Len(out) = Cardinality(JoinPairs(la, lb))
        /\ \A p \in JoinPairs(la, lb) :
             \E k \in 1..Len(out) : IsOverlay(out[k], la[p[1]], lb[p[2]])
        /\ \A k \in 1..Len(out) :
             \E p \in JoinPairs(la, lb) : IsOverlay(out[k], la[p[1]], lb[p[2]])
        /\ \A k \in 1..Len(out) : out[k]["number"] \in numsA \cap numsB

\* a merge of lists that share a number and of lists that do not has run,
\* with a Form B record that overrides a Form A key among the joined ones
C2_Witness ==
  /\ call.fn = "merge_list" /\ ret # Pending
  /\ Len(ret.val) >= 2
  /\ \E i \in 1..Len(call.args[1]) :
       \A j \in 1..Len(call.args[2]) :
         call.args[1][i]["number"] # call.args[2][j]["number"]
  /\ \E k \in 1..Len(ret.val) : ret.val[k]["system"] = "SYSB"

-----------------------------------------------------------------------------
(* Validation layer.                                                       *)

\* the two grammars the argument types validate against
RegexNumber == "^[0-9]{2,}$"

RegexName == "^[a-zA-Z0-9]{1,8}$"

\* '$' of re matches at the end of the string and before a newline that ends it
BeforeDollar(value) ==
  IF Len(value) > 0 /\ Ch(value, Len(value)) = "\n"
    THEN SubSeq(value, 1, Len(value) - 1)
    ELSE value

\* re.compile(regex).search(value), for the two grammars
pattern_search(regex, value) ==
  LET core == BeforeDollar(value) IN
    IF regex = RegexNumber
      THEN Len(core) >= 2 /\ AllIn(core, 1, Len(core), Digits)
      ELSE Len(core) >= 1 /\ Len(core) <= 8 /\ AllIn(core, 1, Len(core), Alnums)

\* ValidationError(message).msg
ValidationErrorMsg(message) ==
  "An error occurred during validate the input parameters: \"" \o message \o "\""

\* OperatorCmdError(message).msg
OperatorCmdErrorMsg(message) ==
  "An error occurred during issue the operator command, the response is \""
    \o message \o "\""

\* validate_parameters_based_on_regex(value, regex)
validate_parameters_based_on_regex(value, regex) ==
  IF pattern_search(regex, value)
    THEN Ret(value)
    ELSE Raise("ValidationError", ValidationErrorMsg(value))

\* system_type(arg_val, params)
system_type(arg_val) ==
  LET value == IF arg_val # "" /\ arg_val # "*" THEN strip_star(arg_val) ELSE arg_val
      checked == validate_parameters_based_on_regex(value, RegexName)
  IN IF checked.state = "raised" THEN checked ELSE Ret(value)

\* message_id_type(arg_val, params)
message_id_type(arg_val) ==
  LET value == IF arg_val # "" /\ arg_val # "*" THEN strip_star(arg_val) ELSE arg_val
      checked == validate_parameters_based_on_regex(value, RegexName)
  IN IF checked.state = "raised" THEN checked ELSE Ret(value)

\* jobname_type(arg_val, params)
jobname_type(arg_val) ==
  LET value == IF arg_val # "" /\ arg_val # "*" THEN strip_star(arg_val) ELSE arg_val
      checked == validate_parameters_based_on_regex(value, RegexName)
  IN IF checked.state = "raised" THEN checked ELSE Ret(value)

\* a loop that validates every entry but 'all', the empty string included
RECURSIVE NumberLoopNoSkip(_)
NumberLoopNoSkip(rest) ==
  IF Len(rest) = 0 THEN Ret(<<>>)
  ELSE LET value == Head(rest)
           checked == IF value # "all"
                        THEN validate_parameters_based_on_regex(value, RegexNumber)
                        ELSE Ret(value)
       IN IF checked.state = "raised" THEN checked ELSE NumberLoopNoSkip(Tail(rest))

\* the loop of request_number_list_type: the first entry that fails raises
RECURSIVE NumberLoop(_)
NumberLoop(rest) ==
  IF Len(rest) = 0 THEN Ret(<<>>)
  ELSE LET value == Head(rest)
           checked == IF value # "" /\ value # "all"
                        THEN validate_parameters_based_on_regex(value, RegexNumber)
                        ELSE Ret(value)
       IN IF checked.state = "raised" THEN checked ELSE NumberLoop(Tail(rest))

\* request_number_list_type(arg_val, params), on a list of strings
request_number_list_type(arg_val) ==
  LET looped == NumberLoop(arg_val) IN
    IF looped.state = "raised" THEN looped ELSE Ret(arg_val)

-----------------------------------------------------------------------------
(* SpecValidate: the four argument types applied to parameter values.      *)

\* the longest parameter value built from ValueAlphabet
MaxValueLen == 3

\* the longest request_number_list
MaxList == 2

\* a wildcard, an upper-case and a lower-case letter, a digit, a character
\* outside the grammar and a newline
ValueAlphabet == {"*", "A", "b", "7", "-", "\n"}

\* every string over ValueAlphabet of length 0..MaxValueLen, and values at
\* and beyond the length limit of the grammar
NameValues ==
  {""} \cup {Join(q, "") : q \in SeqsUpTo(ValueAlphabet, MaxValueLen)}
       \cup {"*MV2H*", "ABCDEFGH", "*ABCDEFGH*", "ABCDEFGHI", "IM5*"}

\* entries of a request_number_list
NumberEntries == {"all", "", "5", "12", "007", "ALL", "1a", "12\n"}

NameTypes == {"system_type", "message_id_type", "jobname_type"}

InitValidate ==
  /\ call \in {[fn |-> f, args |-> <<v>>] : f \in NameTypes, v \in NameValues}
         \cup {[fn |-> "request_number_list_type", args |-> <<l>>] :
                 l \in ListsUpTo(NumberEntries, MaxList)}
  /\ ret = Pending
  /\ QueryIdle
  /\ TsoIdle

CallSystemType ==
  /\ call.fn = "system_type"
  /\ ret = Pending
  /\ ret' = system_type(call.args[1])
  /\ UNCHANGED <<call, queryVars, tso>>

CallMessageIdType ==
  /\ call.fn = "message_id_type"
  /\ ret = Pending
  /\ ret' = message_id_type(call.args[1])
  /\ UNCHANGED <<call, queryVars, tso>>

CallJobnameType ==
  /\ call.fn = "jobname_type"
  /\ ret = Pending
  /\ ret' = jobname_type(call.args[1])
  /\ UNCHANGED <<call, queryVars, tso>>

CallRequestNumberListType ==
  /\ call.fn = "request_number_list_type"
  /\ ret = Pending
  /\ ret' = request_number_list_type(call.args[1])
  /\ UNCHANGED <<call, queryVars, tso>>

NextValidate ==
  \/ CallSystemType
  \/ CallMessageIdType
  \/ CallJobnameType
  \/ CallRequestNumberListType

SpecValidate == InitValidate /\ [][NextValidate]_vars

\* value is 1..8 letters and digits, as '^[A-Za-z0-9]{1,8}$' accepts it
IsName(value) ==
  LET core == BeforeDollar(value) IN
    /\ Len(core) \in 1..8
    /\ \A i \in 1..Len(core) : IsAlnum(Ch(core, i))

\* C4: system_type, message_id_type and jobname_type accept '*' and return
\* it unchanged; any other value is stripped of leading and trailing '*' and
\* is returned stripped if that matches ^[A-Za-z0-9]{1,8}$, and raises
\* ValidationError otherwise (so also when nothing is left after stripping).
C4_NameValidation ==
  (call.fn \in NameTypes /\ ret # Pending)
  => LET v == call.args[1] IN
       IF v = "*" THEN ret = Ret("*")
       ELSE IF IsName(strip_star(v)) THEN ret = Ret(strip_star(v))
       ELSE ret.state = "raised" /\ ret.exc = "ValidationError"

\* entry is two or more digits, as '^[0-9]{2,}$' accepts it
IsNumberEntry(entry) ==
  LET core == BeforeDollar(entry) IN
    /\ Len(core) >= 2
    /\ \A i \in 1..Len(core) : IsDigit(Ch(core, i))

\* C5 as claimed: request_number_list_type raises ValidationError for every
\* list with an entry that is neither 'all' nor two or more digits, the
\* empty string included, and returns the list unchanged otherwise.
C5_EveryEntryValidated ==
  (call.fn = "request_number_list_type" /\ ret # Pending)
  => LET l == call.args[1] IN
       IF \E i \in 1..Len(l) : l[i] # "all" /\ ~IsNumberEntry(l[i])
         THEN ret.state = "raised" /\ ret.exc = "ValidationError"
         ELSE ret = Ret(l)

\* C5 as amended: request_number_list_type raises ValidationError, naming
\* the first offending entry, for every list with a non-empty entry that is
\* neither 'all' nor matched by ^[0-9]{2,}$; it returns the list unchanged
\* otherwise: an empty-string entry is skipped, not validated.
C5_NonEmptyEntryValidated ==
  (call.fn = "request_number_list_type" /\ ret # Pending)
  => LET l == call.args[1]
         bad == {i \in 1..Len(l) : l[i] # "" /\ l[i] # "all" /\ ~IsNumberEntry(l[i])}
     IN IF bad # {}
          THEN /\ ret.state = "raised" /\ ret.exc = "ValidationError"
               /\ ret.msg = ValidationErrorMsg(
                              l[CHOOSE i \in bad : \A j \in bad : i <= j])
          ELSE ret = Ret(l)

\* a list with an empty-string entry beside a valid number was accepted
C5_Witness ==
  /\ call.fn = "request_number_list_type"
  /\ ret = Ret(call.args[1])
  /\ \E i \in 1..Len(call.args[1]) : call.args[1][i] = ""
  /\ \E i \in 1..Len(call.args[1]) : call.args[1][i] = "12"

-----------------------------------------------------------------------------
(* Form B parser.                                                          *)

\* pattern_with_jobname.search(line):
\*   \s*[0-9]{2,}\s[A-Z]{1}\s[A-Z0-9]{1,8}\s+
pattern_with_jobname(line) ==
  \E i \in 1..Len(line) :
    /\ HeaderPrefixAt(line, i)
    /\ \E k \in 1..8 : TokenThenSpace(line, i + 5, k)

\* one iteration of the loop of parse_result_b, on one raw line
parse_result_b_line(st, raw) ==
  LET line == strip(raw)
      m == pattern_with_jobname(line)
  IN
    IF st.exc # "none" THEN st
    ELSE IF m THEN
      LET elements == regex_split(line, 5, 0) IN
        IF Len(elements) < 5
          THEN [st EXCEPT !.exc = "IndexError"]
          ELSE [st EXCEPT
                  !.list = Append(@, [number |-> elements[1],
                                      jobname |-> elements[3],
                                      message_id |-> elements[5]])]
    ELSE st

\* the loop of parse_result_b over the lines, first to last
RECURSIVE ParseBLoop(_, _)
ParseBLoop(st, lines) ==
  IF Len(lines) = 0 THEN st
  ELSE ParseBLoop(parse_result_b_line(st, Head(lines)), Tail(lines))

\* parse_result_b(result): the list it returns, or the IndexError it raises
parse_result_b(text) ==
  LET st == ParseBLoop([list |-> <<>>, exc |-> "none"], str_split(text, "\n", -1)) IN
    IF st.exc # "none" THEN Raise(st.exc, "list index out of range")
    ELSE Ret(st.list)

-----------------------------------------------------------------------------
(* Request filter.                                                         *)

\* regex.search(field) for a pattern of literal characters: sub occurs in s.
\* The criteria that reach handle_conditions are letters and digits (they
\* passed RegexName), so the compiled pattern has no operator in it.
Contains(s, sub) ==
  \E i \in 1..(Len(s) - Len(sub) + 1) : SubSeq(s, i, i + Len(sub) - 1) = sub

\* a condition filter that keeps a record only when the whole field equals
\* the value (a full match in place of a search)
handle_conditions_match(list, condition_type, condition_values) ==
  SelectSeq(list, LAMBDA r : DictGet(r, condition_type) = condition_values)

\* handle_conditions(list, condition_type, condition_values), on records
\* that carry the field condition_type
RECURSIVE handle_conditions(_, _, _)
handle_conditions(list, condition_type, condition_values) ==
  IF Len(list) = 0 THEN <<>>
  ELSE (IF Contains(DictGet(Head(list), condition_type), condition_values)
          THEN <<Head(list)>>
          ELSE <<>>)
       \o handle_conditions(Tail(list), condition_type, condition_values)

\* the inner loop of filter_requests: the first record with the number
RECURSIVE FirstWithNumber(_, _)
FirstWithNumber(merged, number) ==
  IF Len(merged) = 0 THEN <<>>
  ELSE IF DictGet(Head(merged), "number") = number THEN <<Head(merged)>>
  ELSE FirstWithNumber(Tail(merged), number)

\* an inner loop without its break: every record with the number
RECURSIVE AllWithNumber(_, _)
AllWithNumber(merged, number) ==
  IF Len(merged) = 0 THEN <<>>
  ELSE (IF DictGet(Head(merged), "number") = number THEN <<Head(merged)>> ELSE <<>>)
       \o AllWithNumber(Tail(merged), number)

\* a number selection whose inner loop does not break at the first match
RECURSIVE SelectNumbersNoBreak(_, _)
SelectNumbersNoBreak(merged, request_number_list) ==
  IF Len(request_number_list) = 0 THEN <<>>
  ELSE AllWithNumber(merged, Head(request_number_list))
       \o SelectNumbersNoBreak(merged, Tail(request_number_list))

\* a number selection that walks the merged set and keeps a record when the
\* list names its number: merged order, each record once
SelectNumbersMergedOrder(merged, request_number_list) ==
  SelectSeq(merged,
            LAMBDA r : \E i \in 1..Len(request_number_list) :
                         DictGet(r, "number") = request_number_list[i])

\* the outer loop of filter_requests: for number in request_number_list
RECURSIVE SelectNumbers(_, _)
SelectNumbers(merged, request_number_list) ==
  IF Len(request_number_list) = 0 THEN <<>>
  ELSE FirstWithNumber(merged, Head(request_number_list))
       \o SelectNumbers(merged, Tail(request_number_list))

\* a parameter that "if system:" takes as set
Truthy(value) == value # None /\ value # ""

\* filter_requests(merged_list, params)
filter_requests(merged, p) ==
  LET request_number_list == p.request_number_list
      system == p.system
      message_id == p.message_id
      jobname == p.jobname
      selected ==
        IF \A i \in 1..Len(request_number_list) : lower(request_number_list[i]) # "all"
          THEN SelectNumbers(merged, request_number_list)
          ELSE merged
      by_system ==
        IF Truthy(system)
          THEN handle_conditions(selected, "system", strip_star(upper(system)))
          ELSE selected
      by_jobname ==
        IF Truthy(jobname)
          THEN handle_conditions(by_system, "jobname", strip_star(upper(jobname)))
          ELSE by_system
  IN IF Truthy(message_id)
       THEN handle_conditions(by_jobname, "message_id", strip_star(upper(message_id)))
       ELSE by_jobname

-----------------------------------------------------------------------------
(* SpecFilter: filter_requests applied to a merged set and criteria.       *)

\* the longest merged set fed to filter_requests
MaxMerged == 3

\* merged records; two share a number, two a system prefix and a job prefix
MergedRecords ==
  { [number |-> "01", type |-> "R", system |-> "MV27", job_id |-> "STC01",
     message_text |-> "*01 DFS", jobname |-> "IM5H", message_id |-> "DFS"],
    [number |-> "02", type |-> "R", system |-> "MV29",
     message_text |-> "*02 HWS", jobname |-> "MQ1", message_id |-> "HWS"],
    [number |-> "01", type |-> "R", system |-> "MV29",
     message_text |-> "*01 DSI", jobname |-> "IM5G", message_id |-> "DSI"] }

\* entries of request_number_list that passed validation
FilterEntries == {"all", "ALL", "01", "02", "04"}

\* criteria: None, letters and digits as the validation layer hands them on,
\* or a value that still carries its trailing wildcard
FilterParams ==
  [request_number_list : ListsUpTo(FilterEntries, MaxList),
   system : {None, "MV2*", "mv29"},
   jobname : {None, "IM5"},
   message_id : {None, "DSI"}]

InitFilter ==
  /\ call \in {[fn |-> "filter_requests", args |-> <<ml, p>>] :
                 ml \in ListsUpTo(MergedRecords, MaxMerged), p \in FilterParams}
  /\ ret = Pending
  /\ QueryIdle
  /\ TsoIdle

CallFilter ==
  /\ call.fn = "filter_requests"
  /\ ret = Pending
  /\ ret' = Ret(filter_requests(call.args[1], call.args[2]))
  /\ UNCHANGED <<call, queryVars, tso>>

SpecFilter == InitFilter /\ [][CallFilter]_vars

\* a call of filter_requests that selects by number only: no entry is 'all'
\* in any case, and no attribute criterion is set
NumberSelectionOnly ==
  /\ call.fn = "filter_requests"
  /\ ret # Pending
  /\ \A i \in 1..Len(call.args[2].request_number_list) :
       call.args[2].request_number_list[i] \notin {"all", "ALL"}
  /\ call.args[2].system = None
  /\ call.args[2].jobname = None
  /\ call.args[2].message_id = None

\* position k of merged holds the first record of merged with its number
IsFirstOfNumber(merged, k) ==
  \A j \in 1..(k - 1) : merged[j]["number"] # merged[k]["number"]

\* how many entries of seq satisfy seq[i][field] = value
CountField(seq, field, value) ==
  Cardinality({i \in 1..Len(seq) : seq[i][field] = value})

\* how many entries of a list of strings equal value
CountEntry(seq, value) == Cardinality({i \in 1..Len(seq) : seq[i] = value})

\* C10: number selection of filter_requests, with no 'all' entry and no
\* attribute criterion: every result record is the first merged record of a
\* listed number, every listed number that the merged set holds has that
\* first record in the result, and each entry of the list contributes at
\* most one record (one if the merged set holds its number, none otherwise),
\* also when the merged set holds several records with that number.
C10_NumberSelection ==
  NumberSelectionOnly
  => LET merged == call.args[1]
         wanted == call.args[2].request_number_list
         out == ret.val
         listed == {wanted[i] : i \in 1..Len(wanted)}
         held == {merged[k]["number"] : k \in 1..Len(merged)}
     IN /\ \A r \in 1..Len(out) :
             /\ out[r]["number"] \in listed
             /\ \E k \in 1..Len(merged) :
                  merged[k] = out[r] /\ IsFirstOfNumber(merged, k)
        /\ \A n \in listed \cap held :
             \E r \in 1..Len(out) : out[r]["number"] = n
        /\ \A n \in listed :
             CountField(out, "number", n) =
               (IF n \in held THEN CountEntry(wanted, n) ELSE 0)
        /\ Len(out) <= Len(wanted)

\* a selection has run on a merged set that holds two records with a listed
\* number and one record with a number that is not listed
C10_Witness ==
  /\ NumberSelectionOnly
  /\ call.args[2].request_number_list = <<"01">>
  /\ CountField(call.args[1], "number", "01") = 2
  /\ CountField(call.args[1], "number", "02") = 1
  /\ Len(ret.val) = 1

\* a is b with some entries left out: same relative order, no entry of b
\* used twice
RECURSIVE IsSubsequence(_, _)
IsSubsequence(a, b) ==
  IF Len(a) = 0 THEN TRUE
  ELSE IF Len(b) = 0 THEN FALSE
  ELSE IF Head(a) = Head(b) THEN IsSubsequence(Tail(a), Tail(b))
  ELSE IsSubsequence(a, Tail(b))

\* a call of filter_requests has returned
FilterDone == call.fn = "filter_requests" /\ ret # Pending

\* the request list of the call names 'all', in any case
NamesAll ==
  \E i \in 1..Len(call.args[2].request_number_list) :
    call.args[2].request_number_list[i] \in {"all", "ALL"}

\* the position in merged of the first record with the number, 0 if none
FirstIndexOf(merged, number) ==
  IF \E k \in 1..Len(merged) : merged[k]["number"] = number
    THEN CHOOSE k \in 1..Len(merged) :
           /\ merged[k]["number"] = number
           /\ \A j \in 1..(k - 1) : merged[j]["number"] # number
    ELSE 0

\* the entries of wanted whose number merged holds, in the order of wanted
RECURSIVE HeldEntries(_, _)
HeldEntries(merged, wanted) ==
  IF Len(wanted) = 0 THEN <<>>
  ELSE (IF FirstIndexOf(merged, Head(wanted)) # 0 THEN <<Head(wanted)>> ELSE <<>>)
       \o HeldEntries(merged, Tail(wanted))

\* per held entry of the request list, in list order, the first merged
\* record with its number
PickedInListOrder(merged, wanted) ==
  LET held == HeldEntries(merged, wanted)
  IN [i \in 1..Len(held) |-> merged[FirstIndexOf(merged, held[i])]]

\* C11 as stated: whatever the criteria, the returned records appear in the
\* same relative order as in the merged set and no merged record appears in
\* the result more than once: the result is the merged set with some records
\* left out.
C11_MergedOrderNoRepeat ==
  FilterDone => IsSubsequence(ret.val, call.args[1])

\* C11 amended: when request_number_list names 'all', the result is the
\* merged set with some records left out (merged order, no record repeated).
\* Otherwise the result follows the order of request_number_list: it is the
\* list that holds, per entry of request_number_list in list order, the first
\* merged record with that number, with some of these left out; with no
\* attribute criterion set it is exactly that list, so a number named twice
\* has its record twice.
C11_ListOrderUnlessAll ==
  FilterDone
  => LET merged == call.args[1]
         p == call.args[2]
         picked == PickedInListOrder(merged, p.request_number_list)
     IN IF NamesAll
          THEN IsSubsequence(ret.val, merged)
          ELSE /\ IsSubsequence(ret.val, picked)
               /\ (p.system = None /\ p.jobname = None /\ p.message_id = None)
                    => ret.val = picked

\* the list names two numbers against the order of a merged set that holds
\* one of them twice, and the result follows the list
C11_Witness ==
  /\ FilterDone
  /\ call.args[2].request_number_list = <<"02", "01">>
  /\ call.args[2].jobname = None
  /\ Len(call.args[1]) = 3
  /\ call.args[1][1]["number"] = "01"
  /\ call.args[1][2]["number"] = "02"
  /\ call.args[1][3]["number"] = "01"
  /\ call.args[1][3] # call.args[1][1]
  /\ ret.val = <<call.args[1][2], call.args[1][1]>>

\* sub occurs in s as a run of consecutive characters
HasSubstring(s, sub) ==
  \E i \in 1..Len(s) : \E j \in i..Len(s) : SubSeq(s, i, j) = sub

\* the attribute criteria of filter_requests, in the order they are applied
AttributeCriteria == <<"system", "jobname", "message_id">>

\* a criterion that is set
CriterionSet(value) == value \notin {None, ""}

\* the record passes every attribute criterion that is set in p
PassesCriteria(record, p) ==
  \A c \in 1..Len(AttributeCriteria) :
    LET field == AttributeCriteria[c]
    IN CriterionSet(p[field])
       => HasSubstring(record[field], strip_star(upper(p[field])))

-----------------------------------------------------------------------------
(* The outstanding-action query: run_module and what it calls.             *)

\* the two console commands of create_merge_list
operator_cmd_a == "d r,a,s"

operator_cmd_b == "d r,a,jn"

\* the message of find_required_request when nothing is left
NoSuchRequest ==
  "There is no such request given the condition, check your command or update your options."

\* execute_command(operator_cmd), given what OperatorCmd.execute answered
execute_command(rc_message) ==
  LET rc == rc_message.rc
      message == rc_message.message
  IN IF rc > 0
       THEN Raise("OperatorCmdError", OperatorCmdErrorMsg(message))
       ELSE Ret(message)

\* a find_required_request that returns whatever the filter leaves
find_required_request_any(merged, p) == Ret(filter_requests(merged, p))

\* find_required_request(params), from the merged list on
find_required_request(merged, p) ==
  LET filtered == filter_requests(merged, p) IN
    IF filtered # <<>>
      THEN Ret(filtered)
      ELSE Raise("OperatorCmdError", OperatorCmdErrorMsg(NoSuchRequest))

\* the parameters in the order of arg_defs
ParamOrder == <<"request_number_list", "system", "message_id", "jobname">>

\* arg_defs: the arg_type of a parameter applied to a value
ArgType(name, value) ==
  CASE name = "request_number_list" -> request_number_list_type(value)
    [] name = "system" -> system_type(value)
    [] name = "message_id" -> message_id_type(value)
    [] name = "jobname" -> jobname_type(value)

\* BetterArgParser.parse_args on parameter k and the ones after it: a
\* parameter that was given goes through its arg_type, one that was not
\* keeps its default; the first arg_type that raises ends the parse.
\* done is the parse so far: the values and the parameters handled.
RECURSIVE parse_args_from(_, _, _)
parse_args_from(p, k, done) ==
  IF k > Len(ParamOrder) THEN [state |-> "returned", val |-> done.val, seen |-> done.seen]
  ELSE LET name == ParamOrder[k]
           r == IF p[name] = None THEN Ret(None) ELSE ArgType(name, p[name])
       IN IF r.state = "raised"
            THEN [state |-> "raised", exc |-> r.exc, msg |-> r.msg,
                  seen |-> Append(done.seen, name)]
            ELSE parse_args_from(p, k + 1,
                   [val |-> [done.val EXCEPT ![name] = r.val],
                    seen |-> Append(done.seen, name)])

\* parser.parse_args(module.params)
parse_args(p) == parse_args_from(p, 1, [val |-> p, seen |-> <<>>])

\* module.fail_json(msg=..., **result): the run ends as a failure
FailJson(msg) ==
  /\ result' = [outcome |-> "fail_json", msg |-> msg, changed |-> FALSE,
                original_message |-> params, message |-> ""]
  /\ pc' = "done"

\* "except Error as e" and "except Exception as e" of run_module
Except(r) ==
  IF r.exc \in {"ValidationError", "OperatorCmdError"}
    THEN FailJson(r.msg)
    ELSE FailJson("An unexpected error occurred: " \o r.exc)

\* run_module in check mode: it returns result and issues nothing
CheckModeReturn ==
  /\ pc = "start"
  /\ check_mode
  /\ result' = [outcome |-> "return", changed |-> FALSE,
                original_message |-> params, message |-> ""]
  /\ pc' = "done"
  /\ UNCHANGED <<call, ret, params, check_mode, console, new_params, message_a,
                 message_b, list_a, list_b, merged_list, requests, log, tso>>

\* run_module: parser.parse_args(module.params)
ParseArgs ==
  /\ pc = "start"
  /\ ~check_mode
  /\ LET r == parse_args(params) IN
       /\ log' = log \o [i \in 1..Len(r.seen) |-> <<"validate", r.seen[i]>>]
       /\ IF r.state = "raised"
            THEN Except(r) /\ UNCHANGED new_params
            ELSE new_params' = r.val /\ pc' = "execute_a" /\ UNCHANGED result
  /\ UNCHANGED <<call, ret, params, check_mode, console, message_a, message_b,
                 list_a, list_b, merged_list, requests, tso>>

\* a run_module that queries the console with module.params before parsing
ExecuteABeforeParseArgs ==
  /\ pc = "start"
  /\ ~check_mode
  /\ log' = Append(log, <<"execute", operator_cmd_a>>)
  /\ new_params' = params
  /\ LET r == execute_command(console[operator_cmd_a]) IN
       IF r.state = "raised"
         THEN Except(r) /\ UNCHANGED message_a
         ELSE message_a' = r.val /\ pc' = "execute_b" /\ UNCHANGED result
  /\ UNCHANGED <<call, ret, params, check_mode, console, message_b,
                 list_a, list_b, merged_list, requests, tso>>

\* create_merge_list: message_a = execute_command(operator_cmd_a)
ExecuteA ==
  /\ pc = "execute_a"
  /\ log' = Append(log, <<"execute", operator_cmd_a>>)
  /\ LET r == execute_command(console[operator_cmd_a]) IN
       IF r.state = "raised"
         THEN Except(r) /\ UNCHANGED message_a
         ELSE message_a' = r.val /\ pc' = "execute_b" /\ UNCHANGED result
  /\ UNCHANGED <<call, ret, params, check_mode, console, new_params, message_b,
                 list_a, list_b, merged_list, requests, tso>>

\* create_merge_list: message_b = execute_command(operator_cmd_b)
ExecuteB ==
  /\ pc = "execute_b"
  /\ log' = Append(log, <<"execute", operator_cmd_b>>)
  /\ LET r == execute_command(console[operator_cmd_b]) IN
       IF r.state = "raised"
         THEN Except(r) /\ UNCHANGED message_b
         ELSE message_b' = r.val /\ pc' = "parse_a" /\ UNCHANGED result
  /\ UNCHANGED <<call, ret, params, check_mode, console, new_params, message_a,
                 list_a, list_b, merged_list, requests, tso>>

\* create_merge_list: list_a = parse_result_a(message_a)
ParseA ==
  /\ pc = "parse_a"
  /\ log' = Append(log, <<"parse", operator_cmd_a>>)
  /\ LET r == parse_result_a(message_a) IN
       IF r.state = "raised"
         THEN Except(r) /\ UNCHANGED list_a
         ELSE list_a' = r.val /\ pc' = "parse_b" /\ UNCHANGED result
  /\ UNCHANGED <<call, ret, params, check_mode, console, new_params, message_a,
                 message_b, list_b, merged_list, requests, tso>>

\* create_merge_list: list_b = parse_result_b(message_b)
ParseB ==
  /\ pc = "parse_b"
  /\ log' = Append(log, <<"parse", operator_cmd_b>>)
  /\ LET r == parse_result_b(message_b) IN
       IF r.state = "raised"
         THEN Except(r) /\ UNCHANGED list_b
         ELSE list_b' = r.val /\ pc' = "merge" /\ UNCHANGED result
  /\ UNCHANGED <<call, ret, params, check_mode, console, new_params, message_a,
                 message_b, list_a, merged_list, requests, tso>>

\* create_merge_list: merged_list = merge_list(list_a, list_b)
Merge ==
  /\ pc = "merge"
  /\ merged_list' = merge_list(list_a, list_b)
  /\ pc' = "filter"
  /\ UNCHANGED <<call, ret, params, check_mode, console, new_params, message_a,
                 message_b, list_a, list_b, requests, result, log, tso>>

\* find_required_request: requests = filter_requests(merged_list, params),
\* and the error when nothing is left
Filter ==
  /\ pc = "filter"
  /\ log' = Append(log, <<"filter", "">>)
  /\ LET r == find_required_request(merged_list, new_params) IN
       IF r.state = "raised"
         THEN Except(r) /\ requests' = <<>>
         ELSE requests' = r.val /\ pc' = "report" /\ UNCHANGED result
  /\ UNCHANGED <<call, ret, params, check_mode, console, new_params, message_a,
                 message_b, list_a, list_b, merged_list, tso>>

\* run_module after the try block: requests_count, message, requests, exit_json
Report ==
  /\ pc = "report"
  /\ LET counted ==
           IF requests # <<>>
             THEN [k \in {"requests_count"} |-> Len(requests)]
             ELSE EmptyDict
         base == [outcome |-> "exit_json", changed |-> FALSE,
                  original_message |-> params,
                  message |-> [stdout |-> "Successfully queried the operator for outstanding actions.",
                               stderr |-> ""],
                  requests |-> requests]
     IN result' = DictUpdate(base, counted)
  /\ pc' = "done"
  /\ UNCHANGED <<call, ret, params, check_mode, console, new_params, message_a,
                 message_b, list_a, list_b, merged_list, requests, log, tso>>

NextQuery ==
  \/ CheckModeReturn
  \/ ParseArgs
  \/ ExecuteA
  \/ ExecuteB
  \/ ParseA
  \/ ParseB
  \/ Merge
  \/ Filter
  \/ Report

\* the state of a run before run_module's first step
QueryStart ==
  /\ pc = "start"
  /\ new_params = None
  /\ message_a = None
  /\ message_b = None
  /\ list_a = <<>>
  /\ list_b = <<>>
  /\ merged_list = <<>>
  /\ requests = <<>>
  /\ result = [outcome |-> "none"]
  /\ log = <<>>
  /\ call = [fn |-> "none", args |-> <<>>]
  /\ ret = Pending

-----------------------------------------------------------------------------
(* SpecQuery: runs of the query on valid and invalid parameters, against    *)
(* consoles that answer with zero, positive and negative status.            *)

\* a display with three requests: the parser returns the first two
TextA3 ==
  Join(<<LineTitle, LineJobId, LineCont, LineNoJobId, LineCont, LineWord>>, "\n")

\* a display with no request
TextA0 == LineTitle

\* a display of "d r,a,jn" with the two requests, and one cut short
TextB2 == "12 R IM5H *12 DFS READY\n13 R MQ1 *13 HWS UP"

TextBShort == "12 R IM5H *12"

QueryParams ==
  [request_number_list : {<<"all">>, <<"12">>, <<"99">>, <<"5">>},
   system : {None, "mv27", "MV28", "*"},
   message_id : {None, "dfs*"},
   jobname : {None, "bad-name"}]

StatusCodes == {0, 8, -1}

Consoles ==
  {[c \in {operator_cmd_a, operator_cmd_b} |->
      IF c = operator_cmd_a THEN ra ELSE rb] :
     ra \in [rc : StatusCodes, message : {TextA3, TextA0, LineBare}],
     rb \in [rc : StatusCodes, message : {TextB2, TextBShort}]}

InitQuery ==
  /\ params \in QueryParams
  /\ check_mode \in BOOLEAN
  /\ console \in Consoles
  /\ QueryStart
  /\ TsoIdle

SpecQuery == InitQuery /\ [][NextQuery]_vars

\* the steps of the run so far that are <<kind, what>>
Logged(kind, what) == \E i \in 1..Len(log) : log[i] = <<kind, what>>

\* how often <<kind, what>> was logged
TimesLogged(kind, what) == Cardinality({i \in 1..Len(log) : log[i] = <<kind, what>>})

\* C6: a nonzero status of either console command, positive or negative,
\* ends the query with OperatorCmdError carrying the returned message;
\* the output of that command is not parsed and the command is not run
\* again; with status 0 execute_command returns the message.
C6_NonzeroStatusAborts ==
  \A c \in {operator_cmd_a, operator_cmd_b} :
    Logged("execute", c)
    => /\ TimesLogged("execute", c) = 1
       /\ IF console[c].rc # 0
            THEN /\ pc = "done"
                 /\ result.outcome = "fail_json"
                 /\ result.msg = OperatorCmdErrorMsg(console[c].message)
                 /\ ~Logged("parse", c)
            ELSE (IF c = operator_cmd_a THEN message_a ELSE message_b)
                   = console[c].message

\* C7: find_required_request fails with the error that carries the fixed
\* advisory message whenever filter_requests leaves nothing, whatever the
\* reason; otherwise it returns the filtered list, so a run that ends in
\* exit_json reports requests_count = len(requests) >= 1.
C7_EmptyResultFails ==
  /\ Logged("filter", "")
     => IF filter_requests(merged_list, new_params) = <<>>
          THEN /\ pc = "done"
               /\ result.outcome = "fail_json"
               /\ result.msg = OperatorCmdErrorMsg(NoSuchRequest)
          ELSE /\ requests = filter_requests(merged_list, new_params)
               /\ pc \in {"report", "done"}
               /\ pc = "done" => result.outcome = "exit_json"
  /\ result.outcome = "exit_json"
     => /\ Logged("filter", "")
        /\ result.requests = requests
        /\ "requests_count" \in DOMAIN result
        /\ result.requests_count = Len(result.requests)
        /\ result.requests_count >= 1

\* a run whose merged set was not empty ended with the advisory error,
\* because an attribute criterion removed every selected record
C7_Witness ==
  /\ pc = "done"
  /\ Logged("filter", "")
  /\ merged_list # <<>>
  /\ new_params.request_number_list = <<"12">>
  /\ Truthy(new_params.system)
  /\ result.outcome = "fail_json"
  /\ result.msg = OperatorCmdErrorMsg(NoSuchRequest)

\* C9: in every run, each of the four parameters has been handled by the
\* validation layer before the first console command is executed, and a run
\* in which a parameter fails validation ends with the ValidationError and
\* has executed no console command at any point.
C9_ValidateBeforeExecute ==
  /\ \A i \in 1..Len(log) :
       log[i][1] = "execute"
       => \A k \in 1..Len(ParamOrder) :
            \E j \in 1..(i - 1) : log[j] = <<"validate", ParamOrder[k]>>
  /\ (pc # "start" /\ ~check_mode /\ parse_args(params).state = "raised")
     => /\ pc = "done"
        /\ result.outcome = "fail_json"
        /\ result.msg = parse_args(params).msg
        /\ \A i \in 1..Len(log) : log[i][1] # "execute"
  /\ check_mode => log = <<>>

\* a run with an invalid jobname, against a console that would have
\* answered with status 0, has ended with the ValidationError
C9_Witness ==
  /\ pc = "done"
  /\ params.jobname = "bad-name"
  /\ params.system \in {None, "mv27"}
  /\ params.request_number_list = <<"all">>
  /\ console[operator_cmd_a].rc = 0
  /\ result.outcome = "fail_json"
  /\ result.msg = ValidationErrorMsg("bad-name")
  /\ Len(log) = 4

-----------------------------------------------------------------------------
(* SpecRoundTrip: the query with the default parameters, over console      *)
(* texts in which a request number may occur more than once.               *)

\* the longest "d r,a,jn" text, in lines
MaxLinesB == 2

\* a second request with the number of LineJobId, from another system
LineJobIdAgain == "12 R MV29 *12 DSI"

RoundTripTextsA ==
  {Join(ls, "\n") : ls \in SeqsUpTo({LineJobId, LineNoJobId, LineJobIdAgain}, MaxLines)}

RoundTripTextsB ==
  {Join(ls, "\n") :
     ls \in SeqsUpTo({"12 R IM5H *12 DFS UP", "13 R MQ1 *13 HWS UP",
                      "12 R MQ2 *12 DSI UP"}, MaxLinesB)}

InitRoundTrip ==
  /\ params = [request_number_list |-> <<"all">>, system |-> None,
               message_id |-> None, jobname |-> None]
  /\ check_mode = FALSE
  /\ console \in
       {[c \in {operator_cmd_a, operator_cmd_b} |->
           [rc |-> 0, message |-> IF c = operator_cmd_a THEN ta ELSE tb]] :
          ta \in RoundTripTextsA, tb \in RoundTripTextsB}
  /\ QueryStart
  /\ TsoIdle

NextRoundTrip ==
  \/ ParseArgs
  \/ ExecuteA
  \/ ExecuteB
  \/ ParseA
  \/ ParseB
  \/ Merge
  \/ Filter
  \/ Report

SpecRoundTrip == InitRoundTrip /\ [][NextRoundTrip]_vars

\* the request numbers of a parse result
NumbersOf(list) == {list[i]["number"] : i \in 1..Len(list)}

\* the default query has parsed, merged and filtered
RoundTripDone ==
  /\ Logged("filter", "")
  /\ new_params.request_number_list = <<"all">>
  /\ ~Truthy(new_params.system)
  /\ ~Truthy(new_params.jobname)
  /\ ~Truthy(new_params.message_id)

\* C3 as claimed: parse, merge and filter with ['all'] and no other
\* criterion return as many records as there are distinct request numbers
\* common to the two parse results, also when a number occurs twice in one.
C3_CountIsCommonNumbers ==
  RoundTripDone
  => Len(requests) = Cardinality(NumbersOf(list_a) \cap NumbersOf(list_b))

\* C3 as amended: they return one record per pair (a, b) of a Form A and a
\* Form B record with the same number; that count is the number of distinct
\* common numbers exactly when no common number occurs more than once in
\* either parse result.
C3_CountIsJoinPairs ==
  RoundTripDone
  => LET common == NumbersOf(list_a) \cap NumbersOf(list_b) IN
       /\ Len(requests) = Cardinality(JoinPairs(list_a, list_b))
       /\ Len(requests) = Cardinality(common)
          <=> \A n \in common :
                /\ CountField(list_a, "number", n) = 1
                /\ CountField(list_b, "number", n) = 1

\* the default query has run on parse results in which a common number
\* occurs twice on one side and once on the other
C3_Witness ==
  /\ RoundTripDone
  /\ CountField(list_a, "number", "12") = 2
  /\ CountField(list_b, "number", "12") = 1
  /\ Len(requests) = 2

-----------------------------------------------------------------------------
(* zos_tso_command: run_module.                                            *)

\* Python builds a set by hashing its elements: a dict or a list among them
\* raises TypeError.  Each element is given with its Python type.
SetLiteral(elements) ==
  IF \E i \in 1..Len(elements) : elements[i].type \in {"dict", "list", "set"}
    THEN Raise("TypeError", "unhashable type: '"
                 \o elements[CHOOSE i \in 1..Len(elements) :
                      /\ elements[i].type \in {"dict", "list", "set"}
                      /\ \A j \in 1..(i - 1) :
                           elements[j].type \notin {"dict", "list", "set"}].type
                 \o "'")
    ELSE Ret({elements[i].val : i \in 1..Len(elements)})

\* stdout.splitlines(), for texts whose only line break is "\n"
splitlines(text) ==
  LET parts == str_split(text, "\n", -1) IN
    IF parts[Len(parts)] = "" THEN SubSeq(parts, 1, Len(parts) - 1) ELSE parts

\* run_tso_command(command, auth, module): the program it runs, and what
\* module.run_command answered (or the exception it raised, raised again)
run_tso_command(command, auth, answer) ==
  IF answer.raised
    THEN Raise("Exception", "run_command failed")
    ELSE Ret([stdout |-> answer.stdout, stderr |-> answer.stderr, rc |-> answer.rc,
              program |-> IF auth THEN "mvscmdauth" ELSE "tso"])

\* what run_module of zos_tso_command ends with: outcome is the call that
\* ends it, msg its msg argument, message_msg is result["message"]["msg"]
TsoOutcome(command, auth, answer) ==
  IF command = None \/ strip(command) = ""
    THEN [outcome |-> "fail_json", changed |-> FALSE,
          msg |-> "The \"command\" provided was null or an empty string.",
          message_msg |-> None]
  ELSE
    LET ran == run_tso_command(command, auth, answer) IN
      IF ran.state = "raised"
        THEN [outcome |-> "fail_json", changed |-> FALSE,
              msg |-> "An unexpected error occurred: " \o ran.exc,
              message_msg |-> None]
      ELSE
        LET rc == ran.val.rc
            ret_code == [code |-> rc, msg_code |-> rc, msg_txt |-> ""]
            content == splitlines(ran.val.stdout)
            built == SetLiteral(<<[type |-> "dict", val |-> ret_code],
                                  [type |-> "list", val |-> content]>>)
        IN IF built.state = "raised"
             THEN [outcome |-> "fail_json", changed |-> FALSE,
                   msg |-> "An unexpected error occurred: " \o built.exc,
                   message_msg |-> ""]
           ELSE IF rc = 0
             THEN [outcome |-> "exit_json", changed |-> TRUE, msg |-> None,
                   message_msg |-> "The TSO command execution succeeded."]
           ELSE [outcome |-> "fail_json", changed |-> FALSE, msg |-> None,
                 message_msg |-> "The TSO command execution failed."]

\* run_module of zos_tso_command
TsoRunModule ==
  /\ tso.pc = "start"
  /\ tso' = [tso EXCEPT !.pc = "done",
                        !.result = TsoOutcome(tso.command, tso.auth, tso.answer)]
  /\ UNCHANGED <<call, ret, queryVars>>

TsoCommands == {None, "", "  ", "LU TESTUSER", "delete 'TEST.HILL3.TEST'"}

TsoAnswers ==
  [raised : BOOLEAN, rc : {0, 4, 8, -1}, stdout : {"", "READY\nEND"},
   stderr : {"", "IKJ56500I COMMAND NOT FOUND"}]

InitTso ==
  /\ tso \in [pc : {"start"}, command : TsoCommands, auth : BOOLEAN,
              answer : TsoAnswers, result : {[outcome |-> "none"]}]
  /\ call = [fn |-> "none", args |-> <<>>]
  /\ ret = Pending
  /\ QueryIdle

SpecTso == InitTso /\ [][TsoRunModule]_vars

\* C8: for a command that is not blank and that ran and returned a code,
\* run_module ends in exit_json with changed = true and the message 'The TSO
\* command execution succeeded.' when the code is 0, and in fail_json with
\* the message 'The TSO command execution failed.' when it is not; it never
\* ends with the generic 'An unexpected error occurred' failure.
C8_TsoOutcomeFollowsCode ==
  (/\ tso.pc = "done"
   /\ tso.command # None
   /\ strip(tso.command) # ""
   /\ ~tso.answer.raised)
  => IF tso.answer.rc = 0
       THEN /\ tso.result.outcome = "exit_json"
            /\ tso.result.changed
            /\ tso.result.message_msg = "The TSO command execution succeeded."
       ELSE /\ tso.result.outcome = "fail_json"
            /\ tso.result.message_msg = "The TSO command execution failed."

====
